---- MODULE Spec2Model ----
(***************************************************************************)
(* A model of the MT5 deal processor: DealProcessor (start / submit / stop *)
(* and the worker loop), ThreadSafeQueue, Validator, the retry loop of     *)
(* executeWithRetry, ResultTracker and the broker interface IMTBrokerAPI.  *)
(*                                                                         *)
(* Units: volumes are hundredths of a lot (0.01 lot = 1), prices are       *)
(* abstract (0 = 0.0, anything above 0 is a positive price), delays are    *)
(* milliseconds.  Strings built by concatenation are sequences of pieces.  *)
(* Timestamps and log output are not modelled.                             *)
(***************************************************************************)
EXTENDS Integers, Sequences, FiniteSets, TLC

VARIABLES
    config,           \* ProcessorConfig config_
    symbols_,         \* the broker's symbol table (MockMTAPI::symbols_)
    ticketCounter_,   \* MockMTAPI::ticketCounter_
    broker,           \* what the broker of this run does: the statuses executeTrade
                      \* reaches, the values an unassigned field holds, the
                      \* retryCount it writes
    running_,         \* DealProcessor::running_ (atomic<bool>)
    queue_,           \* ThreadSafeQueue::queue_
    shutdown_,        \* ThreadSafeQueue::shutdown_
    seenRequests_,    \* Validator::seenRequests_
    results_,         \* ResultTracker::results_      requestId -> result
    clientRequests_,  \* ResultTracker::clientRequests_  clientId -> requestIds
    wk,               \* the worker threads: position and locals of workerLoop
    prod,             \* the producer threads: position inside submit()
    ctl,              \* the thread that calls start() and stop()
    subs,             \* history: one entry per submit() call
    budget,           \* submit() calls the producers still make
    pool,             \* what the producers submit: requests, with or without callback
    latch,            \* history: queue content when shutdown_ was set
    exitDepth,        \* history: queue length when a worker's pop() returned nullopt
    brokerConforms,   \* history: the broker left price 0 on every failure
    script,           \* the start() and stop() calls the controlling thread still makes
    mutex_,           \* the owner of ThreadSafeQueue::mutex_, Validator::dedupMutex_
                      \* and ResultTracker::mutex_
    lockSteps,        \* whether this run takes a mutex in a step of its own
    workers_,         \* DealProcessor::workers_: the number of std::thread objects
    rival,            \* a second thread that calls start() and stop(): its position
                      \* and the calls it still makes
    stoppers          \* history: the threads that ran queue_.shutdown() since the
                      \* running flag was last set

vars == <<config, symbols_, ticketCounter_, broker, running_, queue_, shutdown_,
          seenRequests_, results_, clientRequests_, wk, prod, ctl, subs,
          budget, pool, latch, exitDepth, brokerConforms, script, mutex_, lockSteps,
          workers_, rival, stoppers>>

-----------------------------------------------------------------------------
(* Bounds of the model *)

NumWorkers == 2
PipeRetries == 0
MaxSubmits == 2
MaxRetries == 2
MaxStarts == 2
MaxCalls == 3

-----------------------------------------------------------------------------
(* Program constants *)

TicketStart == 100000
RetryBaseMs == 100

-----------------------------------------------------------------------------
(* Text: std::to_string and string concatenation *)

Digits == <<"0", "1", "2", "3", "4", "5", "6", "7", "8", "9">>

RECURSIVE NatStr(_)
NatStr(n) ==
    IF n < 10 THEN <<Digits[n + 1]>>
    ELSE NatStr(n \div 10) \o <<Digits[(n % 10) + 1]>>

\* std::to_string(int)
to_string(n) == IF n < 0 THEN <<"-">> \o NatStr(0 - n) ELSE NatStr(n)

\* std::to_string(double) of a value given in hundredths: "%f", six decimals
Abs(n) == IF n < 0 THEN 0 - n ELSE n
to_string_f(v) ==
    (IF v < 0 THEN <<"-">> ELSE <<>>) \o NatStr(Abs(v) \div 100) \o <<".">>
        \o <<Digits[((Abs(v) \div 10) % 10) + 1], Digits[(Abs(v) % 10) + 1]>>
        \o <<"0", "0", "0", "0">>

-----------------------------------------------------------------------------
(* TradeStatus, TradeResult *)

TradeStatus == {"SUCCESS", "REJECTED", "INVALID_PARAMS", "CONNECTION_ERROR",
                "MARGIN_ERROR", "DUPLICATE", "RETRY_EXHAUSTED"}

NoTicket == <<>>      \* the empty std::string
NoMessage == <<>>
NoValue == <<>>       \* std::nullopt; a present value v is <<v>>

isSuccess(r) == r.status = "SUCCESS"

isRetryableBug(r) == r.status \in {"CONNECTION_ERROR", "REJECTED", "MARGIN_ERROR"}
isRetryable(r) == r.status = "CONNECTION_ERROR" \/ r.status = "REJECTED"

-----------------------------------------------------------------------------
(* The broker: IMTBrokerAPI as implemented by MockMTAPI *)

\* MockMTAPI::MockMTAPI: the symbol database
MockSymbols ==
    [s \in {"EURUSD", "GBPUSD", "USDJPY", "AUDUSD", "USDCAD", "XAUUSD"} |->
        [name |-> s, minVolume |-> 1,
         maxVolume |-> IF s = "XAUUSD" THEN 5000 ELSE 10000,
         volumeStep |-> 1, tradeAllowed |-> TRUE]]

\* A symbol database of an IMTBrokerAPI whose SymbolInfo has tradeAllowed = false
\* for one symbol (MockMTAPI sets the field to true for each of its six symbols)
ClosedSymbol ==
    [name |-> "XAGUSD", minVolume |-> 1, maxVolume |-> 5000, volumeStep |-> 1,
     tradeAllowed |-> FALSE]

SymbolsWithClosed ==
    [s \in DOMAIN MockSymbols \cup {ClosedSymbol.name} |->
        IF s = ClosedSymbol.name THEN ClosedSymbol ELSE MockSymbols[s]]

getSymbolInfo(table, symbol) ==
    IF symbol \in DOMAIN table THEN <<table[symbol]>> ELSE NoValue

\* The statuses executeTrade returns
BrokerStatuses == {"SUCCESS", "CONNECTION_ERROR", "INVALID_PARAMS", "REJECTED",
                   "MARGIN_ERROR"}

\* executionPrice is not assigned on the failure paths of executeTrade: the
\* field of the default-initialised TradeResult holds an indeterminate value
UninitPrice == {0, 1}

\* retryCount as the broker sets it (MockMTAPI writes 0; the interface allows any)
BrokerRetryCounts == {0, 9}

BrokerMessage(request, status) ==
    CASE status = "CONNECTION_ERROR" ->
            <<"MT5 server connection timeout during DealerSend()">>
      [] status = "REJECTED" ->
            <<"Trading disabled for symbol '", request.symbol, "'">>
      [] status = "INVALID_PARAMS" ->
            <<"Volume ">> \o to_string_f(request.volume) \o <<" not aligned to step ">>
      [] status = "MARGIN_ERROR" ->
            <<"Insufficient margin. Required: $">>
                \o to_string_f(request.volume * 1000)
      [] OTHER -> NoMessage

\* One call of executeTrade: status is the outcome the broker reaches, ticket the
\* value of ticketCounter_ it draws, garbage the indeterminate price, brc the
\* retryCount it writes
executeTrade(request, status, ticket, garbage, brc) ==
    [requestId |-> request.requestId,
     clientId |-> request.clientId,
     status |-> status,
     mtTicketId |-> IF status = "SUCCESS" THEN to_string(ticket) ELSE NoTicket,
     executionPrice |-> IF status = "SUCCESS" THEN 1 ELSE garbage,
     errorMessage |-> BrokerMessage(request, status),
     retryCount |-> brc]

-----------------------------------------------------------------------------
(* Validator *)

makeErrorBug(req, status, msg) ==
    [requestId |-> req.requestId, clientId |-> req.clientId, status |-> status,
     mtTicketId |-> NoTicket, executionPrice |-> 0, errorMessage |-> NoMessage,
     retryCount |-> 0]
makeError(req, status, msg) ==
    [requestId |-> req.requestId, clientId |-> req.clientId, status |-> status,
     mtTicketId |-> NoTicket, executionPrice |-> 0, errorMessage |-> msg,
     retryCount |-> 0]

\* The checks of validate() that follow the dedup block; info is the value
\* getSymbolInfo returned
validateParams(request, info) ==
    IF request.clientId = "" THEN
        <<makeError(request, "INVALID_PARAMS", <<"Empty client ID">>)>>
    ELSE IF request.symbol = "" THEN
        <<makeError(request, "INVALID_PARAMS", <<"Empty symbol">>)>>
    ELSE IF request.volume <= 0 THEN
        <<makeError(request, "INVALID_PARAMS",
                    <<"Invalid volume: ">> \o to_string_f(request.volume))>>
    ELSE IF info = NoValue THEN
        <<makeError(request, "INVALID_PARAMS", <<"Unknown symbol: ", request.symbol>>)>>
    ELSE IF ~info[1].tradeAllowed THEN
        <<makeError(request, "REJECTED",
                    <<"Trading not allowed for: ", request.symbol>>)>>
    ELSE IF request.volume < info[1].minVolume \/ request.volume > info[1].maxVolume THEN
        <<makeError(request, "INVALID_PARAMS",
                    <<"Volume ">> \o to_string_f(request.volume) \o <<" outside range [">>
                        \o to_string_f(info[1].minVolume) \o <<", ">>
                        \o to_string_f(info[1].maxVolume) \o <<"]">>)>>
    ELSE IF request.stopLoss # NoValue /\ request.stopLoss[1] <= 0 THEN
        <<makeError(request, "INVALID_PARAMS",
                    <<"Invalid stop loss: ">> \o to_string_f(request.stopLoss[1]))>>
    ELSE IF request.takeProfit # NoValue /\ request.takeProfit[1] <= 0 THEN
        <<makeError(request, "INVALID_PARAMS",
                    <<"Invalid take profit: ">> \o to_string_f(request.takeProfit[1]))>>
    ELSE NoValue

\* validate() reaches getSymbolInfo iff the three checks before it pass
reachesSymbolGet(request) ==
    request.clientId # "" /\ request.symbol # "" /\ request.volume > 0

\* The dedup block: the set after the locked block has run
dedupInsertBug(seen, requestId) == seen
dedupInsertReset(seen, requestId) == {requestId}
dedupInsert(seen, requestId) == seen \cup {requestId}

\* validate(): err is the returned optional, seen the dedup set afterwards,
\* symbolGets the number of getSymbolInfo calls made
validateParamsFirst(request, seen, table) ==
    LET e == validateParams(request, getSymbolInfo(table, request.symbol))
    IN  IF e # NoValue THEN
            [err |-> e, seen |-> seen,
             symbolGets |-> IF reachesSymbolGet(request) THEN 1 ELSE 0]
        ELSE IF request.requestId \in seen THEN
            [err |-> <<makeError(request, "DUPLICATE",
                                 <<"Duplicate request ID: ", request.requestId>>)>>,
             seen |-> seen, symbolGets |-> 1]
        ELSE [err |-> NoValue, seen |-> dedupInsert(seen, request.requestId),
              symbolGets |-> 1]
validateInsertOnPass(request, seen, table) ==
    LET e == validateParams(request, getSymbolInfo(table, request.symbol))
    IN  IF request.requestId \in seen THEN
            [err |-> <<makeError(request, "DUPLICATE",
                                 <<"Duplicate request ID: ", request.requestId>>)>>,
             seen |-> seen, symbolGets |-> 0]
        ELSE [err |-> e,
              seen |-> IF e = NoValue THEN dedupInsert(seen, request.requestId) ELSE seen,
              symbolGets |-> IF reachesSymbolGet(request) THEN 1 ELSE 0]
validate(request, seen, table) ==
    IF request.requestId \in seen THEN
        [err |-> <<makeError(request, "DUPLICATE",
                             <<"Duplicate request ID: ", request.requestId>>)>>,
         seen |-> seen, symbolGets |-> 0]
    ELSE
        [err |-> validateParams(request, getSymbolInfo(table, request.symbol)),
         seen |-> dedupInsert(seen, request.requestId),
         symbolGets |-> IF reachesSymbolGet(request) THEN 1 ELSE 0]

-----------------------------------------------------------------------------
(* DealProcessor::executeWithRetry, one pass of the loop body *)

\* int delayMs = config_.retryBaseMs * (1 << (attempt - 1)); the values of the
\* model stay far below the range of int
backoffDelayBug(base, attempt) == base * (2 ^ attempt)
backoffDelay(base, attempt) == base * (2 ^ (attempt - 1))

\* result.retryCount = attempt
setRetryCountBug(r, attempt) == r
setRetryCount(r, attempt) == [r EXCEPT !.retryCount = attempt]

\* the loop condition, evaluated for the pass after `attempt`
loopContinuesBug(attempt, maxRetries) == attempt + 1 < maxRetries
loopContinuesWhileRunning(attempt, maxRetries) == running_ /\ attempt + 1 <= maxRetries
loopContinues(attempt, maxRetries) == attempt + 1 <= maxRetries

\* the code after the loop
exhaustedKeepsStatus(r, maxRetries) ==
    [r EXCEPT !.errorMessage = <<"All ">> \o to_string(maxRetries + 1)
                                   \o <<" attempts failed. Last error: ">>
                                   \o r.errorMessage,
              !.retryCount = maxRetries]
exhausted(r, maxRetries) ==
    [r EXCEPT !.status = "RETRY_EXHAUSTED",
              !.errorMessage = <<"All ">> \o to_string(maxRetries + 1)
                                   \o <<" attempts failed. Last error: ">>
                                   \o r.errorMessage,
              !.retryCount = maxRetries]

\* What the loop does with the value executeTrade returned in pass `attempt`:
\* done says that executeWithRetry returns, result is the value it holds
retryStep(brokerResult, attempt, maxRetries) ==
    LET r == setRetryCount(brokerResult, attempt)
    IN  IF isSuccess(r) \/ ~isRetryable(r) THEN [done |-> TRUE, result |-> r]
        ELSE IF loopContinues(attempt, maxRetries) THEN [done |-> FALSE, result |-> r]
        ELSE [done |-> TRUE, result |-> exhausted(r, maxRetries)]

-----------------------------------------------------------------------------
(* Threads and inputs *)

\* the worker threads created so far (config_.numWorkers of them per start())
WorkerIds == DOMAIN wk
ProducerIds == DOMAIN prod

Request(c, r, t, s, v, sl, tp) ==
    [clientId |-> c, requestId |-> r, tradeType |-> t, symbol |-> s, volume |-> v,
     stopLoss |-> sl, takeProfit |-> tp]

\* Inputs of submit(): a request, whether a callback comes with it, and whether
\* that callback throws.  Two
\* clients use the request id r1; the second one sends volume 0.0
\* (ClientSimulator::generateBadRequest, case 1) and passes no callback
PipelinePool ==
    { [req |-> Request("c1", "r1", "BUY", "EURUSD", 10, NoValue, NoValue), cb |-> TRUE,
       throws |-> FALSE],
      [req |-> Request("c2", "r1", "SELL", "EURUSD", 0, NoValue, NoValue), cb |-> FALSE,
       throws |-> FALSE] }

\* No second thread calls start() or stop()
NoRival == [pc |-> "absent", script |-> <<>>]

\* The three mutexes and the threads that take them
Mutexes == {"queue", "dedup", "tracker"}
NoHolder == <<>>
WorkerThread(w) == <<"worker", w>>
ProducerThread(p) == <<"producer", p>>
ControlThread == <<"control">>

\* std::lock_guard / std::unique_lock: the constructor returns once the mutex
\* is free and owns it from then on; the destructor (or cv_.wait) gives it up
lockFree(mx, m) == mx[m] = NoHolder
lock(mx, m, t) == [mx EXCEPT ![m] = t]
unlockBug(mx, m) == mx
unlock(mx, m) == [mx EXCEPT ![m] = NoHolder]

\* the position of a thread that owns a mutex, when mutexes are taken in a
\* step of their own; otherwise lock, body and unlock are one step
Locked(pc) ==
    CASE pc = "pop" -> "pop_locked"
      [] pc = "validate" -> "validate_locked"
      [] pc = "record" -> "record_locked"
      [] pc = "callback" -> "callback_locked"
      [] pc = "push" -> "push_locked"
      [] pc = "stopping" -> "stopping_locked"
Inside(pc) == IF lockSteps THEN Locked(pc) ELSE pc
Released(m) == IF lockSteps THEN unlock(mutex_, m) ELSE mutex_

IdleWorker(pc) ==
    [pc |-> pc, item |-> NoValue, attempt |-> 0, result |-> NoValue]

IdleProducer == [pc |-> "idle", item |-> NoValue]

\* An exception that leaves workerLoop, the function of a std::thread, ends the
\* process (std::terminate): no thread takes another step
Aborted ==
    \/ \E w \in DOMAIN wk : wk[w].pc = "terminated"
    \/ ctl = "terminated"
    \/ rival.pc = "terminated"

NewSubmission(p, t, accepted) ==
    [req |-> t.req, cb |-> t.cb, producer |-> p,
     state |-> IF accepted THEN "accepted" ELSE "refused",
     pops |-> 0, recs |-> 0, cbs |-> 0, symbolGets |-> 0,
     vstat |-> "none", wasSeen |-> FALSE, tries |-> <<>>, lastBroker |-> NoValue,
     slept |-> <<>>, recorded |-> NoValue, cbArg |-> NoValue, recNo |-> 0,
     threw |-> "no", pushNo |-> 0, shutAtPush |-> FALSE, lateTries |-> 0]

InitState ==
    /\ ticketCounter_ = TicketStart
    /\ running_ = FALSE
    /\ queue_ = <<>>
    /\ shutdown_ = FALSE
    /\ seenRequests_ = {}
    /\ results_ = <<>>
    /\ clientRequests_ = <<>>
    /\ wk = [w \in 0 .. (config.numWorkers - 1) |-> IdleWorker("unborn")]
    /\ ctl = "fresh"
    /\ subs = <<>>
    /\ latch = <<>>
    /\ exitDepth = [w \in 0 .. (config.numWorkers - 1) |-> 0]
    /\ brokerConforms = TRUE
    /\ mutex_ = [m \in Mutexes |-> NoHolder]
    /\ workers_ = 0
    /\ stoppers = {}

InitCommon ==
    /\ symbols_ = MockSymbols
    /\ lockSteps = FALSE
    /\ rival = NoRival
    /\ InitState

Init ==
    /\ config = [numWorkers |-> NumWorkers, maxRetries |-> PipeRetries,
                 retryBaseMs |-> RetryBaseMs]
    /\ broker = [statuses |-> {"SUCCESS"}, uninit |-> {0}, retryCounts |-> {0}]
    /\ prod = [p \in {"p1"} |-> IdleProducer]
    /\ budget = MaxSubmits
    /\ pool = PipelinePool
    /\ script = <<"start", "stop">>
    /\ InitCommon

-----------------------------------------------------------------------------
(* Helpers on maps and on the history *)

Put(f, k, v) == [x \in (DOMAIN f) \cup {k} |-> IF x = k THEN v ELSE f[x]]

Bump(sid, field) == [subs EXCEPT ![sid][field] = @ + 1]

-----------------------------------------------------------------------------
(* ThreadSafeQueue *)

\* push(): the queue after the locked block
pushBug(q, sd, item) == <<item>> \o q
push(q, sd, item) == Append(q, item)

\* pop(): the predicate of cv_.wait; the wait returns only when it holds
popReadyBug(q, sd) == TRUE
popReadyNoLatch(q, sd) == q # <<>>
popReady(q, sd) == q # <<>> \/ sd

\* the threads blocked inside cv_.wait
Waiting == {w \in DOMAIN wk : wk[w].pc = "waiting"}

\* cv_.notify_one(): the sets of threads it may unblock
notify_one(waiters) == IF waiters = {} THEN {{}} ELSE {{w} : w \in waiters}

\* cv_.notify_all(): the set of threads it unblocks
notify_allBug(waiters) == IF waiters = {} THEN {} ELSE {CHOOSE w \in waiters : TRUE}
notify_all(waiters) == waiters

\* shutdown(): the value of shutdown_ after the locked block
shutdownBug(sd) == ~sd
shutdown(sd) == TRUE

\* an unblocked thread takes the mutex again and evaluates the predicate anew
Wake(woken) == [w \in DOMAIN wk |-> IF w \in woken THEN IdleWorker("pop") ELSE wk[w]]

\* pop(): after the wait, std::nullopt is returned iff the queue is empty
popClosedBug(q, sd) == sd
popClosed(q, sd) == q = <<>>

-----------------------------------------------------------------------------
(* DealProcessor::start and DealProcessor::stop *)

\* the controlling thread is between two calls
BetweenCalls == ctl \in {"fresh", "started", "stopped"}

\* The threads that call start() and stop(): the controlling thread, and a
\* second one in the runs that have it.  With two callers the test of running_
\* and the assignment to it are two steps, as they are two operations on the
\* atomic; with one caller nothing can come between them
Callers == {"main"} \cup {c \in {"rival"} : rival.pc # "absent"}
Racing == rival.pc # "absent"
pcOf(c) == IF c = "main" THEN ctl ELSE rival.pc
scriptOf(c) == IF c = "main" THEN script ELSE rival.script
CallerIdle(c) == IF c = "main" THEN BetweenCalls
                 ELSE rival.pc \in {"fresh", "started", "stopped"}
Calls(c, f) == CallerIdle(c) /\ scriptOf(c) # <<>> /\ Head(scriptOf(c)) = f

\* caller c goes to position pc with the calls scr left to make
Moves(c, pc, scr) ==
    IF c = "main" THEN ctl' = pc /\ script' = scr /\ UNCHANGED rival
    ELSE rival' = [pc |-> pc, script |-> scr] /\ UNCHANGED <<ctl, script>>

\* start(): if (running_) return;
startReturnsBug(r) == FALSE
startReturns(r) == r

\* start() does nothing to queue_: shutdown_ stays as the last stop() left it
latchAfterStartReset(sd) == FALSE
latchAfterStart(sd) == sd

\* start(): the loop of workers_.emplace_back: numWorkers new threads, added to
\* those workers_ holds
Spawned ==
    IF workers_ = 0
    THEN [w \in 0 .. (config.numWorkers - 1) |-> IdleWorker("pop")]
    ELSE [w \in 0 .. (workers_ + config.numWorkers - 1) |->
             IF w \in DOMAIN wk THEN wk[w] ELSE IdleWorker("pop")]

\* start(): the test of running_; running_ = true, then one std::thread per worker
Start(c) ==
    /\ ~Aborted
    /\ IF Racing /\ pcOf(c) # "start_tested"
       THEN /\ Calls(c, "start")
            /\ Moves(c, IF startReturns(running_) THEN pcOf(c) ELSE "start_tested",
                     Tail(scriptOf(c)))
            /\ UNCHANGED <<running_, shutdown_, wk, workers_, exitDepth, stoppers>>
       ELSE /\ IF Racing THEN pcOf(c) = "start_tested" ELSE Calls(c, "start")
            /\ IF ~Racing /\ startReturns(running_)
               THEN /\ Moves(c, pcOf(c), Tail(scriptOf(c)))
                    /\ UNCHANGED <<running_, shutdown_, wk, workers_, exitDepth,
                                   stoppers>>
               ELSE /\ running_' = TRUE
                    /\ shutdown_' = latchAfterStart(shutdown_)
                    /\ wk' = Spawned
                    /\ workers_' = workers_ + config.numWorkers
                    /\ exitDepth' = [w \in DOMAIN Spawned |->
                           IF w \in DOMAIN exitDepth THEN exitDepth[w] ELSE 0]
                    /\ stoppers' = {}
                    /\ Moves(c, "started",
                             IF Racing THEN scriptOf(c) ELSE Tail(scriptOf(c)))
    /\ UNCHANGED <<mutex_, lockSteps, config, symbols_, broker, ticketCounter_, queue_,
                   seenRequests_, results_, clientRequests_, prod, subs, budget, latch,
                   brokerConforms, pool>>

\* stop(): if (!running_) return;
stopReturnsBug(r) == FALSE
stopReturns(r) == ~r

\* stop(): the test of running_; running_ = false;
StopBegin(c) ==
    /\ ~Aborted
    /\ IF Racing /\ pcOf(c) # "stop_tested"
       THEN /\ Calls(c, "stop")
            /\ Moves(c, IF stopReturns(running_) THEN pcOf(c) ELSE "stop_tested",
                     Tail(scriptOf(c)))
            /\ UNCHANGED running_
       ELSE /\ IF Racing THEN pcOf(c) = "stop_tested" ELSE Calls(c, "stop")
            /\ IF ~Racing /\ stopReturns(running_)
               THEN Moves(c, pcOf(c), Tail(scriptOf(c))) /\ UNCHANGED running_
               ELSE /\ running_' = FALSE
                    /\ Moves(c, "stopping",
                             IF Racing THEN scriptOf(c) ELSE Tail(scriptOf(c)))
    /\ UNCHANGED <<mutex_, lockSteps, config, symbols_, broker, ticketCounter_, queue_,
                   shutdown_, seenRequests_, results_, clientRequests_, wk, prod, subs,
                   budget, latch, brokerConforms, pool, exitDepth, workers_, stoppers>>

\* queue_.shutdown(), the locked block: shutdown_ = true
StopShutdown(c) ==
    /\ ~Aborted
    /\ IF lockSteps /\ pcOf(c) = "stopping"
       THEN /\ lockFree(mutex_, "queue")
            /\ mutex_' = lock(mutex_, "queue", ControlThread)
            /\ Moves(c, Locked("stopping"), scriptOf(c))
            /\ UNCHANGED <<shutdown_, latch, stoppers>>
       ELSE /\ pcOf(c) = Inside("stopping")
            /\ mutex_' = Released("queue")
            /\ shutdown_' = shutdown(shutdown_)
            /\ latch' = IF shutdown_ THEN latch
                        ELSE [i \in 1 .. Len(queue_) |-> queue_[i].sid]
            /\ stoppers' = stoppers \cup {c}
            /\ Moves(c, "notifying", scriptOf(c))
    /\ UNCHANGED <<lockSteps, config, symbols_, broker, ticketCounter_, running_, queue_,
                   seenRequests_, results_, clientRequests_, wk, prod, subs, budget,
                   brokerConforms, pool, exitDepth, workers_>>

\* queue_.shutdown(), after the lock is released: cv_.notify_all()
StopNotify(c) ==
    /\ ~Aborted
    /\ pcOf(c) = "notifying"
    /\ wk' = Wake(notify_all(Waiting))
    /\ Moves(c, "joining", scriptOf(c))
    /\ UNCHANGED <<mutex_, lockSteps, config, symbols_, broker, ticketCounter_, running_,
                   queue_, shutdown_, seenRequests_, results_, clientRequests_, prod,
                   subs, budget, latch, brokerConforms, pool, exitDepth, workers_,
                   stoppers>>

\* How the join loop of caller c ends.  Two callers inside the loop join the
\* same std::thread objects and one clears the vector the other iterates:
\* undefined behaviour, which returns or ends the process
JoinOutcomes(c) ==
    IF workers_ > 0 /\ \E d \in Callers \ {c} : pcOf(d) = "joining"
    THEN {"stopped", "terminated"}
    ELSE {"stopped"}

\* the join loop and workers_.clear(): returns once every worker thread has ended
StopJoin(c) ==
    /\ ~Aborted
    /\ pcOf(c) = "joining"
    /\ \A w \in WorkerIds : wk[w].pc = "exited"
    /\ \E outcome \in JoinOutcomes(c) : Moves(c, outcome, scriptOf(c))
    /\ workers_' = 0
    /\ UNCHANGED <<mutex_, lockSteps, config, symbols_, broker, ticketCounter_, running_,
                   queue_, shutdown_, seenRequests_, results_, clientRequests_, wk, prod,
                   subs, budget, latch, brokerConforms, pool, exitDepth, stoppers>>

-----------------------------------------------------------------------------
(* DealProcessor::submit, called by the producer threads *)

\* if (!running_) { ...; return; }
submitAcceptsBug(r) == TRUE
submitAccepts(r) == r

\* The test of running_.  A refused call returns; an accepted one goes on to push
SubmitCheck(p, t) ==
    /\ ~Aborted
    /\ prod[p].pc = "idle"
    /\ budget > 0
    /\ budget' = budget - 1
    /\ subs' = Append(subs, NewSubmission(p, t, submitAccepts(running_)))
    /\ prod' = [prod EXCEPT ![p] =
                    IF submitAccepts(running_)
                    THEN [pc |-> "push",
                          item |-> <<[sid |-> Len(subs) + 1, req |-> t.req, cb |-> t.cb,
                                      throws |-> t.throws]>>]
                    ELSE IdleProducer]
    /\ UNCHANGED <<workers_, rival, stoppers, mutex_, lockSteps, config, symbols_, broker, ticketCounter_, running_, queue_,
                   shutdown_, seenRequests_, results_, clientRequests_, wk, ctl, latch,
                   brokerConforms, pool, exitDepth,
                   script>>

\* history: the number of items pushed so far
PushCalls == Cardinality({sid \in DOMAIN subs : subs[sid].pushNo > 0})

\* queue_.push({request, callback}), the locked block
SubmitPush(p) ==
    /\ ~Aborted
    /\ IF lockSteps /\ prod[p].pc = "push"
       THEN /\ lockFree(mutex_, "queue")
            /\ mutex_' = lock(mutex_, "queue", ProducerThread(p))
            /\ prod' = [prod EXCEPT ![p].pc = Locked("push")]
            /\ UNCHANGED <<queue_, subs>>
       ELSE /\ prod[p].pc = Inside("push")
            /\ mutex_' = Released("queue")
            /\ queue_' = push(queue_, shutdown_, prod[p].item[1])
            /\ subs' = [subs EXCEPT ![prod[p].item[1].sid] =
                   [@ EXCEPT !.state = IF queue_' = queue_ THEN "dropped" ELSE "pushed",
                             !.pushNo = IF queue_' = queue_ THEN 0 ELSE PushCalls + 1,
                             !.shutAtPush = shutdown_]]
            /\ prod' = [prod EXCEPT ![p] = [pc |-> "notify", item |-> NoValue]]
    /\ UNCHANGED <<workers_, rival, stoppers, lockSteps, config, symbols_, broker, ticketCounter_, running_, shutdown_,
                   seenRequests_, results_, clientRequests_, wk, ctl, budget, latch,
                   brokerConforms, pool, exitDepth,
                   script>>

\* queue_.push, after the lock is released: cv_.notify_one()
SubmitNotify(p) ==
    /\ ~Aborted
    /\ prod[p].pc = "notify"
    /\ \E woken \in notify_one(Waiting) : wk' = Wake(woken)
    /\ prod' = [prod EXCEPT ![p] = IdleProducer]
    /\ UNCHANGED <<workers_, rival, stoppers, mutex_, lockSteps, config, symbols_, broker, ticketCounter_, running_, queue_,
                   shutdown_, seenRequests_, results_, clientRequests_, ctl, subs,
                   budget, latch, brokerConforms, pool, exitDepth,
                   script>>

-----------------------------------------------------------------------------
(* DealProcessor::workerLoop *)

\* auto item = queue_.pop(); if (!item) break;  With the mutex held the thread
\* evaluates the predicate: it blocks in cv_.wait (releasing the mutex in the
\* same step) when the predicate is false, and returns otherwise
Pop(w) ==
    /\ ~Aborted
    /\ IF lockSteps /\ wk[w].pc = "pop"
       THEN /\ lockFree(mutex_, "queue")
            /\ mutex_' = lock(mutex_, "queue", WorkerThread(w))
            /\ wk' = [wk EXCEPT ![w].pc = Locked("pop")]
            /\ UNCHANGED <<queue_, subs, exitDepth>>
       ELSE /\ wk[w].pc = Inside("pop")
            /\ mutex_' = Released("queue")
            /\ IF ~popReady(queue_, shutdown_)
               THEN /\ wk' = [wk EXCEPT ![w] = IdleWorker("waiting")]
                    /\ UNCHANGED <<queue_, subs, exitDepth>>
               ELSE IF popClosed(queue_, shutdown_)
               THEN /\ wk' = [wk EXCEPT ![w] = IdleWorker("exited")]
                    /\ exitDepth' = [exitDepth EXCEPT ![w] = Len(queue_)]
                    /\ UNCHANGED <<queue_, subs>>
               ELSE /\ wk' = [wk EXCEPT ![w] = [IdleWorker("validate") EXCEPT
                                                    !.item = <<Head(queue_)>>]]
                    /\ queue_' = Tail(queue_)
                    /\ subs' = Bump(Head(queue_).sid, "pops")
                    /\ UNCHANGED exitDepth
    /\ UNCHANGED <<workers_, rival, stoppers, lockSteps, config, symbols_, broker, ticketCounter_, running_, shutdown_,
                   seenRequests_, results_, clientRequests_, prod, ctl, budget, latch,
                   brokerConforms, pool,
                   script>>

\* cv_.wait may return without a notification (a spurious wake-up); the thread
\* then evaluates the predicate like a notified one
SpuriousWake(w) ==
    /\ ~Aborted
    /\ wk[w].pc = "waiting"
    /\ wk' = Wake({w})
    /\ UNCHANGED <<workers_, rival, stoppers, mutex_, lockSteps, config, symbols_, broker, ticketCounter_, running_, queue_,
                   shutdown_, seenRequests_, results_, clientRequests_, prod, ctl, subs,
                   budget, latch, brokerConforms, pool, exitDepth,
                   script>>

\* workerLoop, after processRequest has returned: tracker_.record(result) is the
\* next statement, the callback comes after it
afterProcessBug(it) == IF it.cb THEN "callback" ELSE "record"
afterProcess(it) == "record"

\* processRequest: if (validationError) return *validationError;
validationBlocksBug(err) == FALSE
validationBlocks(err) == err # NoValue

\* processRequest, step 1: validator_.validate(request)
Validate(w) ==
    /\ ~Aborted
    /\ IF lockSteps /\ wk[w].pc = "validate"
       THEN /\ lockFree(mutex_, "dedup")
            /\ mutex_' = lock(mutex_, "dedup", WorkerThread(w))
            /\ wk' = [wk EXCEPT ![w].pc = Locked("validate")]
            /\ UNCHANGED <<seenRequests_, subs>>
       ELSE /\ wk[w].pc = Inside("validate")
            /\ mutex_' = Released("dedup")
            /\ LET it == wk[w].item[1]
                   v == validate(it.req, seenRequests_, symbols_)
               IN  /\ seenRequests_' = v.seen
                   /\ subs' = [subs EXCEPT ![it.sid] =
                          [@ EXCEPT !.vstat = IF v.err = NoValue THEN "pass"
                                              ELSE v.err[1].status,
                                    !.wasSeen = it.req.requestId \in seenRequests_,
                                    !.symbolGets = @ + v.symbolGets]]
                   /\ wk' = [wk EXCEPT ![w] =
                          IF validationBlocks(v.err)
                          THEN [@ EXCEPT !.pc = afterProcess(it), !.result = v.err]
                          ELSE [@ EXCEPT !.pc = "execute", !.result = v.err]]
    /\ UNCHANGED <<workers_, rival, stoppers, lockSteps, config, symbols_, broker, ticketCounter_, running_, queue_,
                   shutdown_, results_, clientRequests_, prod, ctl, budget, latch,
                   brokerConforms, pool, exitDepth,
                   script>>

\* executeWithRetry: one pass of the loop (the backoff sleep, then executeTrade),
\* and the code after the loop when this was the last pass.  The outcome "THROW"
\* is an executeTrade that throws: no handler is on the way out of workerLoop
Execute(w) ==
    /\ ~Aborted
    /\ wk[w].pc = "execute"
    /\ \E status \in broker.statuses, garbage \in broker.uninit, brc \in broker.retryCounts :
         LET it == wk[w].item[1]
             attempt == wk[w].attempt
             br == executeTrade(it.req, status, ticketCounter_, garbage, brc)
             step == retryStep(br, attempt, config.maxRetries)
             slept == IF attempt > 0
                      THEN Append(subs[it.sid].slept,
                                  backoffDelay(config.retryBaseMs, attempt))
                      ELSE subs[it.sid].slept
         IN  IF status = "THROW"
             THEN /\ subs' = [subs EXCEPT ![it.sid] =
                         [@ EXCEPT !.tries = Append(@, status), !.slept = slept,
                                   !.threw = "broker"]]
                  /\ wk' = [wk EXCEPT ![w].pc = "terminated"]
                  /\ UNCHANGED <<ticketCounter_, brokerConforms>>
             ELSE /\ ticketCounter_' = IF status = "SUCCESS" THEN ticketCounter_ + 1
                                       ELSE ticketCounter_
                  /\ brokerConforms' =
                         (brokerConforms /\ (status = "SUCCESS" \/ garbage = 0))
                  /\ subs' = [subs EXCEPT ![it.sid] =
                         [@ EXCEPT !.tries = Append(@, status),
                                   !.lastBroker = <<br>>,
                                   !.slept = slept,
                                   !.lateTries = IF running_ THEN @ ELSE @ + 1]]
                  /\ wk' = [wk EXCEPT ![w] =
                         [@ EXCEPT !.pc = IF step.done THEN afterProcess(it)
                                          ELSE "execute",
                                   !.attempt = IF step.done THEN attempt ELSE attempt + 1,
                                   !.result = <<step.result>>]]
    /\ UNCHANGED <<workers_, rival, stoppers, mutex_, lockSteps, config, symbols_, broker, running_, queue_, shutdown_,
                   seenRequests_, results_, clientRequests_, prod, ctl, budget, latch,
                   pool, exitDepth,
                   script>>

\* ResultTracker::record
recordListOnce(res, cr, result) ==
    [results |-> Put(res, result.requestId, result),
     clientRequests |->
        IF result.requestId \in DOMAIN res THEN cr
        ELSE Put(cr, result.clientId,
                 Append(IF result.clientId \in DOMAIN cr THEN cr[result.clientId]
                        ELSE <<>>,
                        result.requestId))]
recordKeepFirst(res, cr, result) ==
    [results |-> IF result.requestId \in DOMAIN res THEN res
                 ELSE Put(res, result.requestId, result),
     clientRequests |->
        Put(cr, result.clientId,
            Append(IF result.clientId \in DOMAIN cr THEN cr[result.clientId] ELSE <<>>,
                   result.requestId))]
record(res, cr, result) ==
    [results |-> Put(res, result.requestId, result),
     clientRequests |->
        Put(cr, result.clientId,
            Append(IF result.clientId \in DOMAIN cr THEN cr[result.clientId] ELSE <<>>,
                   result.requestId))]

\* ResultTracker::getByRequestId
getByRequestId(res, requestId) ==
    IF requestId \in DOMAIN res THEN <<res[requestId]>> ELSE NoValue

\* ResultTracker::getByClientId: the results of the ids listed for the client, in
\* list order, ids without a result skipped
getByClientId(res, cr, clientId) ==
    IF clientId \notin DOMAIN cr THEN <<>>
    ELSE LET ids == SelectSeq(cr[clientId], LAMBDA id : id \in DOMAIN res)
         IN  [i \in 1 .. Len(ids) |-> res[ids[i]]]

\* ResultTracker::Stats, value-initialised
NoStats ==
    [totalRequests |-> 0, successful |-> 0, duplicates |-> 0, rejected |-> 0,
     errors |-> 0]

\* the switch of getStats and getClientStats: the counter a status increments
statsBucketBug(status) ==
    CASE status = "SUCCESS" -> "successful"
      [] status = "DUPLICATE" -> "duplicates"
      [] status \in {"REJECTED", "RETRY_EXHAUSTED"} -> "rejected"
      [] status \in {"CONNECTION_ERROR", "INVALID_PARAMS"} -> "errors"
      [] OTHER -> "none"
statsBucket(status) ==
    CASE status = "SUCCESS" -> "successful"
      [] status = "DUPLICATE" -> "duplicates"
      [] status \in {"REJECTED", "MARGIN_ERROR", "RETRY_EXHAUSTED"} -> "rejected"
      [] status \in {"CONNECTION_ERROR", "INVALID_PARAMS"} -> "errors"
      [] OTHER -> "none"

\* the body of the loop: stats.totalRequests++, then the switch
countResult(stats, result) ==
    LET b == statsBucket(result.status)
    IN  [f \in DOMAIN stats |->
            IF f = "totalRequests" \/ f = b THEN stats[f] + 1 ELSE stats[f]]

\* the loop over a sequence of results
RECURSIVE countResults(_, _)
countResults(stats, rs) ==
    IF rs = <<>> THEN stats ELSE countResults(countResult(stats, Head(rs)), Tail(rs))

\* the entries of results_ in some iteration order
RECURSIVE Entries(_, _)
Entries(res, ids) ==
    IF ids = {} THEN <<>>
    ELSE LET id == CHOOSE x \in ids : TRUE
         IN  <<res[id]>> \o Entries(res, ids \ {id})

\* ResultTracker::getStats: one pass over results_
getStats(res) == countResults(NoStats, Entries(res, DOMAIN res))

\* ResultTracker::getClientStats: one pass over the ids listed for the client,
\* ids without a stored result skipped
getClientStats(res, cr, clientId) ==
    IF clientId \notin DOMAIN cr THEN NoStats
    ELSE LET ids == SelectSeq(cr[clientId], LAMBDA id : id \in DOMAIN res)
         IN  countResults(NoStats, [i \in 1 .. Len(ids) |-> res[ids[i]]])

\* history: the number of record() calls made so far
RecordCalls == Cardinality({sid \in DOMAIN subs : subs[sid].recNo > 0})

\* tracker_.record(result)
Record(w) ==
    /\ ~Aborted
    /\ IF lockSteps /\ wk[w].pc = "record"
       THEN /\ lockFree(mutex_, "tracker")
            /\ mutex_' = lock(mutex_, "tracker", WorkerThread(w))
            /\ wk' = [wk EXCEPT ![w].pc = Locked("record")]
            /\ UNCHANGED <<results_, clientRequests_, subs>>
       ELSE /\ wk[w].pc = Inside("record")
            /\ mutex_' = Released("tracker")
            /\ LET it == wk[w].item[1]
                   t == record(results_, clientRequests_, wk[w].result[1])
               IN  /\ results_' = t.results
                   /\ clientRequests_' = t.clientRequests
                   /\ subs' = [subs EXCEPT ![it.sid] =
                          [@ EXCEPT !.recs = @ + 1, !.recorded = wk[w].result,
                                    !.recNo = RecordCalls + 1]]
                   /\ wk' = [wk EXCEPT ![w] =
                          IF it.cb THEN [@ EXCEPT !.pc = "callback"]
                          ELSE IdleWorker("pop")]
    /\ UNCHANGED <<workers_, rival, stoppers, lockSteps, config, symbols_, broker, ticketCounter_, running_, queue_,
                   shutdown_, seenRequests_, prod, ctl, budget, latch, brokerConforms,
                   pool, exitDepth,
                   script>>

\* if (callback) callback(result);  A callback that throws ends the process.
\* When mutexes are taken in a step of their own, the callback queries the
\* tracker (getByRequestId of its result) before it returns
Callback(w) ==
    /\ ~Aborted
    /\ IF lockSteps /\ wk[w].pc = "callback"
       THEN /\ lockFree(mutex_, "tracker")
            /\ mutex_' = lock(mutex_, "tracker", WorkerThread(w))
            /\ wk' = [wk EXCEPT ![w].pc = Locked("callback")]
            /\ UNCHANGED subs
       ELSE /\ wk[w].pc = Inside("callback")
            /\ mutex_' = Released("tracker")
            /\ subs' = [subs EXCEPT ![wk[w].item[1].sid] =
                   [@ EXCEPT !.cbs = @ + 1, !.cbArg = wk[w].result,
                             !.threw = IF wk[w].item[1].throws THEN "callback" ELSE @]]
            /\ wk' = [wk EXCEPT ![w] =
                   IF wk[w].item[1].throws THEN [@ EXCEPT !.pc = "terminated"]
                   ELSE IdleWorker("pop")]
    /\ UNCHANGED <<workers_, rival, stoppers, lockSteps, config, symbols_, broker, ticketCounter_, running_, queue_,
                   shutdown_, seenRequests_, results_, clientRequests_, prod, ctl,
                   budget, latch, brokerConforms, pool, exitDepth,
                   script>>

-----------------------------------------------------------------------------
(* The system *)

Next ==
    \/ \E c \in Callers : Start(c)
    \/ \E c \in Callers : StopBegin(c)
    \/ \E c \in Callers : StopShutdown(c)
    \/ \E c \in Callers : StopNotify(c)
    \/ \E c \in Callers : StopJoin(c)
    \/ \E p \in ProducerIds, t \in pool : SubmitCheck(p, t)
    \/ \E p \in ProducerIds : SubmitPush(p)
    \/ \E p \in ProducerIds : SubmitNotify(p)
    \/ \E w \in WorkerIds : Pop(w)
    \/ \E w \in WorkerIds : SpuriousWake(w)
    \/ \E w \in WorkerIds : Validate(w)
    \/ \E w \in WorkerIds : Execute(w)
    \/ \E w \in WorkerIds : Record(w)
    \/ \E w \in WorkerIds : Callback(w)

Spec == Init /\ [][Next]_vars

\* One worker processes one request, for every retry budget up to MaxRetries,
\* against a broker that reaches each of its statuses
InitRetry ==
    /\ \E n \in 0 .. MaxRetries :
            config = [numWorkers |-> 1, maxRetries |-> n, retryBaseMs |-> RetryBaseMs]
    /\ broker = [statuses |-> BrokerStatuses, uninit |-> UninitPrice,
                 retryCounts |-> BrokerRetryCounts]
    /\ prod = [p \in {"p1"} |-> IdleProducer]
    /\ budget = 1
    /\ pool = PipelinePool
    /\ script = <<"start", "stop">>
    /\ InitCommon

SpecRetry == InitRetry /\ [][Next]_vars

\* Requests with distinct ids whose callback may throw (ResultCallback is any
\* std::function), against a broker whose executeTrade may throw (IMTBrokerAPI
\* is an interface: nothing in it is noexcept)
ThrowPool ==
    { [req |-> Request("c1", "r1", "BUY", "EURUSD", 10, NoValue, NoValue), cb |-> TRUE,
       throws |-> TRUE],
      [req |-> Request("c1", "r2", "BUY", "EURUSD", 10, NoValue, NoValue), cb |-> TRUE,
       throws |-> FALSE] }

InitThrow ==
    /\ config = [numWorkers |-> NumWorkers, maxRetries |-> PipeRetries + 1,
                 retryBaseMs |-> RetryBaseMs]
    /\ broker = [statuses |-> {"SUCCESS", "CONNECTION_ERROR", "THROW"}, uninit |-> {0},
                 retryCounts |-> {0}]
    /\ prod = [p \in {"p1"} |-> IdleProducer]
    /\ budget = MaxSubmits
    /\ pool = ThrowPool
    /\ script = <<"start", "stop">>
    /\ InitCommon

SpecThrow == InitThrow /\ [][Next]_vars

\* A broker with transient failures and at least one retry allowed, so that
\* stop() can be called while a request is between two attempts
InitStop ==
    /\ config = [numWorkers |-> NumWorkers, maxRetries |-> PipeRetries + 1,
                 retryBaseMs |-> RetryBaseMs]
    /\ broker = [statuses |-> {"SUCCESS", "CONNECTION_ERROR"}, uninit |-> {0},
                 retryCounts |-> {0}]
    /\ prod = [p \in {"p1"} |-> IdleProducer]
    /\ budget = 1
    /\ pool = PipelinePool
    /\ script = <<"start", "stop">>
    /\ InitCommon

SpecStop == InitStop /\ [][Next]_vars

\* The controlling thread makes MaxCalls calls of start() and stop() in any order
InitLifecycle ==
    /\ config = [numWorkers |-> NumWorkers, maxRetries |-> PipeRetries,
                 retryBaseMs |-> RetryBaseMs]
    /\ broker = [statuses |-> {"SUCCESS"}, uninit |-> {0}, retryCounts |-> {0}]
    /\ prod = [p \in {"p1"} |-> IdleProducer]
    /\ budget = 1
    /\ pool = PipelinePool
    /\ script \in [1 .. MaxCalls -> {"start", "stop"}]
    /\ InitCommon

SpecLifecycle == InitLifecycle /\ [][Next]_vars

\* The controlling thread starts and stops the processor MaxStarts times, so
\* that queue_.shutdown() is called again on the same queue.  Every thread that
\* can take a step is scheduled eventually; a spurious wake-up is never owed
RECURSIVE Lifecycle(_)
Lifecycle(n) == IF n = 0 THEN <<>> ELSE <<"start", "stop">> \o Lifecycle(n - 1)

InitLive ==
    /\ config = [numWorkers |-> NumWorkers, maxRetries |-> PipeRetries,
                 retryBaseMs |-> RetryBaseMs]
    /\ broker = [statuses |-> {"SUCCESS", "CONNECTION_ERROR"}, uninit |-> {0},
                 retryCounts |-> {0}]
    /\ prod = [p \in {"p1"} |-> IdleProducer]
    /\ budget = 1
    /\ pool = PipelinePool
    /\ script = Lifecycle(MaxStarts)
    /\ InitCommon

Scheduling ==
    /\ WF_vars(StopShutdown("main"))
    /\ WF_vars(StopNotify("main"))
    /\ WF_vars(StopJoin("main"))
    /\ \A p \in {"p1"} : WF_vars(SubmitPush(p)) /\ WF_vars(SubmitNotify(p))
    /\ \A w \in 0 .. (NumWorkers - 1) :
          /\ WF_vars(Pop(w))
          /\ WF_vars(Validate(w))
          /\ WF_vars(Execute(w))
          /\ WF_vars(Record(w))
          /\ WF_vars(Callback(w))

SpecLive == InitLive /\ [][Next]_vars /\ Scheduling

\* Requests that fail one or several checks of validate(), processed by one
\* worker against a broker that knows a symbol closed for trading
ValidatePool ==
    { [req |-> r, cb |-> (r.requestId = "r1" /\ r.clientId = "c1"), throws |-> FALSE] :
        r \in { Request("c1", "r1", "BUY", "EURUSD", 10, NoValue, NoValue),
                Request("c2", "r1", "SELL", "EURUSD", 0, NoValue, NoValue),
                Request("", "r2", "BUY", "", 0, NoValue, NoValue),
                Request("c1", "r3", "BUY", "", 0, NoValue, NoValue),
                Request("c1", "r4", "BUY", "INVALID", 0, NoValue, NoValue),
                Request("c1", "r5", "BUY", "INVALID", 10, <<0>>, NoValue),
                Request("c1", "r6", "BUY", ClosedSymbol.name, 20000, <<0>>, NoValue),
                Request("c1", "r7", "SELL", "EURUSD", 20000, <<0>>, NoValue),
                Request("c1", "r8", "SELL", "EURUSD", 10, <<0>>, <<0>>),
                Request("c1", "r9", "SELL", "EURUSD", 10, <<5>>, <<0 - 1>>) } }

InitValidate ==
    /\ config = [numWorkers |-> 1, maxRetries |-> PipeRetries,
                 retryBaseMs |-> RetryBaseMs]
    /\ broker = [statuses |-> {"SUCCESS"}, uninit |-> {0}, retryCounts |-> {0}]
    /\ prod = [p \in {"p1"} |-> IdleProducer]
    /\ budget = MaxSubmits
    /\ pool = ValidatePool
    /\ script = <<"start", "stop">>
    /\ symbols_ = SymbolsWithClosed
    /\ lockSteps = FALSE
    /\ rival = NoRival
    /\ InitState

SpecValidate == InitValidate /\ [][Next]_vars

\* The burst: valid requests of two clients, each with an id of its own, go
\* through NumWorkers workers; as many submissions as there are requests
BurstPool ==
    { [req |-> Request("c1", "r1", "BUY", "EURUSD", 10, NoValue, NoValue), cb |-> TRUE,
       throws |-> FALSE],
      [req |-> Request("c2", "r2", "SELL", "GBPUSD", 10, NoValue, NoValue), cb |-> FALSE,
       throws |-> FALSE] }

InitBurst ==
    /\ config = [numWorkers |-> NumWorkers, maxRetries |-> PipeRetries,
                 retryBaseMs |-> RetryBaseMs]
    /\ broker = [statuses |-> {"SUCCESS"}, uninit |-> {0}, retryCounts |-> {0}]
    /\ prod = [p \in {"p1"} |-> IdleProducer]
    /\ budget = Cardinality(BurstPool)
    /\ pool = BurstPool
    /\ script = <<"start", "stop">>
    /\ InitCommon

SpecBurst == InitBurst /\ [][Next]_vars

\* Requests of two clients that end in every status the engine records, against
\* a broker that reaches each of its statuses and knows a symbol closed for
\* trading, with one retry allowed
StatsPool ==
    { [req |-> Request("c1", "r1", "BUY", "EURUSD", 10, NoValue, NoValue), cb |-> TRUE,
       throws |-> FALSE],
      [req |-> Request("c2", "r1", "SELL", "EURUSD", 0, NoValue, NoValue), cb |-> FALSE,
       throws |-> FALSE],
      [req |-> Request("c1", "r2", "BUY", ClosedSymbol.name, 10, NoValue, NoValue),
       cb |-> FALSE, throws |-> FALSE] }

InitStats ==
    /\ config = [numWorkers |-> 1, maxRetries |-> PipeRetries + 1,
                 retryBaseMs |-> RetryBaseMs]
    /\ broker = [statuses |-> BrokerStatuses, uninit |-> {0}, retryCounts |-> {0}]
    /\ prod = [p \in {"p1"} |-> IdleProducer]
    /\ budget = MaxSubmits
    /\ pool = StatsPool
    /\ script = <<"start", "stop">>
    /\ symbols_ = SymbolsWithClosed
    /\ lockSteps = FALSE
    /\ rival = NoRival
    /\ InitState

SpecStats == InitStats /\ [][Next]_vars

\* The pipeline with every mutex taken in a step of its own, so that threads
\* wait for one another's critical sections
InitLocks ==
    /\ config = [numWorkers |-> NumWorkers, maxRetries |-> PipeRetries,
                 retryBaseMs |-> RetryBaseMs]
    /\ broker = [statuses |-> {"SUCCESS"}, uninit |-> {0}, retryCounts |-> {0}]
    /\ prod = [p \in {"p1"} |-> IdleProducer]
    /\ budget = Cardinality(PipelinePool)
    /\ pool = PipelinePool
    /\ script = <<"start", "stop">>
    /\ symbols_ = MockSymbols
    /\ lockSteps = TRUE
    /\ rival = NoRival
    /\ InitState

SpecLocks == InitLocks /\ [][Next]_vars

\* Two threads call start() and then stop() on the same processor, in any
\* interleaving; start() creates one worker
InitRace ==
    /\ config = [numWorkers |-> 1, maxRetries |-> PipeRetries,
                 retryBaseMs |-> RetryBaseMs]
    /\ broker = [statuses |-> {"SUCCESS"}, uninit |-> {0}, retryCounts |-> {0}]
    /\ prod = [p \in {"p1"} |-> IdleProducer]
    /\ budget = 1
    /\ pool = PipelinePool
    /\ script = <<"start", "stop">>
    /\ rival = [pc |-> "fresh", script |-> <<"start", "stop">>]
    /\ symbols_ = MockSymbols
    /\ lockSteps = FALSE
    /\ InitState

SpecRace == InitRace /\ [][Next]_vars

-----------------------------------------------------------------------------
(* Vocabulary of the properties *)

Sids == DOMAIN subs

Retryable == {"CONNECTION_ERROR", "REJECTED"}

\* the submit() call put its request on the queue
Pushed(sid) == subs[sid].state = "pushed"

\* the number of callback invocations a submission is due
CallbacksDue(sid) == IF subs[sid].cb THEN 1 ELSE 0

\* the submission went through the worker loop exactly once
ProcessedOnce(sid) ==
    /\ subs[sid].pops = 1
    /\ subs[sid].recs = 1
    /\ subs[sid].cbs = CallbacksDue(sid)
    /\ subs[sid].recorded # NoValue
    /\ subs[sid].recorded[1].requestId = subs[sid].req.requestId
    /\ subs[sid].recorded[1].clientId = subs[sid].req.clientId

RECURSIVE SumRecs(_)
SumRecs(n) == IF n = 0 THEN 0 ELSE subs[n].recs + SumRecs(n - 1)

\* the number of record() calls made so far
NumRecorded == SumRecs(Len(subs))

\* the number of requests submit() pushed
NumAdmitted == Cardinality({sid \in Sids : Pushed(sid)})

\* nothing runs any more: stop() has returned and no producer is inside submit()
Quiescent == ctl = "stopped" /\ \A p \in ProducerIds : prod[p].pc = "idle"

-----------------------------------------------------------------------------
(* C1: every request that submit() accepted and pushed is popped by exactly one
   worker, gets exactly one recorded result with its requestId and clientId, and
   exactly one callback invocation if it came with a callback (none otherwise);
   once nothing runs any more this has happened for every pushed request. *)
C1_ExactlyOneResult ==
    /\ \A sid \in Sids :
          /\ subs[sid].pops <= 1
          /\ subs[sid].recs <= 1
          /\ subs[sid].cbs <= CallbacksDue(sid)
    /\ Quiescent => \A sid \in Sids : Pushed(sid) => ProcessedOnce(sid)

(* C2: when stop() has returned, every item that was in the queue when the
   shutdown latch was set has been popped, validated, recorded and called back;
   and a worker leaves its loop only at a moment the queue is empty. *)
C2_GracefulDrain ==
    /\ ctl = "stopped" =>
          \A i \in DOMAIN latch :
              ProcessedOnce(latch[i]) /\ subs[latch[i]].vstat # "none"
    /\ \A w \in WorkerIds : wk[w].pc = "exited" => exitDepth[w] = 0

\* stop() has returned after a shutdown that found items in the queue
C2_Witness ==
    /\ ctl = "stopped"
    /\ Len(latch) >= 1
    /\ \E i \in DOMAIN latch : subs[latch[i]].cbs = 1

(* C3: after stop() has returned the queue is empty and the number of recorded
   results equals the number of requests submit() pushed, whatever the
   interleaving of submit() and stop(). *)
C3_StopLeavesNothing ==
    ctl = "stopped" => Len(queue_) = 0 /\ NumRecorded = NumAdmitted

(* C4: among the validated submissions that share one requestId exactly one
   passed the dedup check, every other one got DUPLICATE, and a recorded result
   is DUPLICATE exactly for those. *)
C4_DedupRaceFree ==
    \A sid \in Sids :
        LET same == {o \in Sids : /\ subs[o].req.requestId = subs[sid].req.requestId
                                  /\ subs[o].vstat # "none"}
        IN  /\ same # {} =>
                Cardinality({o \in same : subs[o].vstat # "DUPLICATE"}) = 1
            /\ subs[sid].recorded # NoValue =>
                (subs[sid].recorded[1].status = "DUPLICATE"
                    <=> subs[sid].vstat = "DUPLICATE")

\* two submissions of one requestId are both recorded, and the one submitted
\* first is the DUPLICATE: the worker holding the later one validated first
C4_Witness ==
    \E a, b \in Sids :
        /\ a # b
        /\ subs[a].req.requestId = subs[b].req.requestId
        /\ subs[a].recorded # NoValue /\ subs[b].recorded # NoValue
        /\ subs[b].vstat = "DUPLICATE"
        /\ a > b

(* C5: a submission the Validator refused never reaches executeTrade, and its
   result has the Validator's status, retryCount 0, no ticket and price 0; a
   DUPLICATE comes only from a requestId already in the seen set, and then
   neither getSymbolInfo nor executeTrade is called. *)
C5_ValidatorErrorStopsProcessing ==
    \A sid \in Sids :
        /\ subs[sid].vstat \notin {"none", "pass"} =>
              /\ subs[sid].tries = <<>>
              /\ subs[sid].recorded # NoValue =>
                    /\ subs[sid].recorded[1].status = subs[sid].vstat
                    /\ subs[sid].recorded[1].retryCount = 0
                    /\ subs[sid].recorded[1].mtTicketId = NoTicket
                    /\ subs[sid].recorded[1].executionPrice = 0
        /\ subs[sid].vstat = "DUPLICATE" =>
              subs[sid].wasSeen /\ subs[sid].symbolGets = 0
        /\ (subs[sid].recorded # NoValue /\ subs[sid].recorded[1].status = "DUPLICATE")
              => subs[sid].wasSeen /\ subs[sid].symbolGets = 0 /\ subs[sid].tries = <<>>

\* a DUPLICATE result and an INVALID_PARAMS result of the Validator are recorded
C5_Witness ==
    \E a, b \in Sids :
        /\ subs[a].recorded # NoValue /\ subs[a].vstat = "DUPLICATE"
        /\ subs[b].recorded # NoValue /\ subs[b].vstat = "INVALID_PARAMS"

(* C6: a submit() call that finds the processor not running returns without
   touching the queue, the tracker or the dedup set, and its request is never
   popped, recorded or called back. *)
C6_RefusedSubmit ==
    /\ [][(Len(subs') = Len(subs) + 1 /\ ~running_) =>
            /\ subs'[Len(subs')].state = "refused"
            /\ \A p \in ProducerIds : prod'[p].pc = "idle"
            /\ UNCHANGED <<queue_, shutdown_, seenRequests_, results_,
                           clientRequests_>>]_vars
    /\ [](\A sid \in Sids :
            subs[sid].state = "refused" =>
                /\ subs[sid].pops = 0 /\ subs[sid].recs = 0 /\ subs[sid].cbs = 0
                /\ \A i \in DOMAIN queue_ : queue_[i].sid # sid)

\* submit() was refused after stop() had cleared the flag, with the result of an
\* earlier request already recorded
C6_Witness ==
    \E a, b \in Sids :
        /\ a < b
        /\ subs[a].recorded # NoValue
        /\ subs[b].state = "refused"
        /\ ~running_

-----------------------------------------------------------------------------
(* Properties of the results: what record() and the callbacks were given *)

\* the results handed to the tracker or to a callback for a submission
Delivered(sid) ==
    {r \in { subs[sid].recorded, subs[sid].cbArg } : r # NoValue}

\* the submission passed validation and executeWithRetry has returned its result
Executed(sid) == subs[sid].vstat = "pass" /\ subs[sid].recorded # NoValue

Last(seq) == seq[Len(seq)]

AttemptSummary(n) == <<"All ">> \o to_string(n) \o <<" attempts failed. Last error: ">>

(* C7: provided the broker left price 0 on every failure, every result recorded
   or passed to a callback has status SUCCESS iff it has a ticket, a price above
   0 and an empty error message; results of the Validator and RETRY_EXHAUSTED
   results have no ticket, price 0 and a non-empty error message. *)
C7_SuccessIffTicketAndPrice ==
    brokerConforms =>
        \A sid \in Sids : \A d \in Delivered(sid) :
            LET r == d[1]
            IN  /\ r.status = "SUCCESS" <=>
                      (r.mtTicketId # NoTicket /\ r.executionPrice > 0
                          /\ r.errorMessage = NoMessage)
                /\ (subs[sid].vstat # "pass" \/ r.status = "RETRY_EXHAUSTED") =>
                      (r.mtTicketId = NoTicket /\ r.executionPrice = 0
                          /\ r.errorMessage # NoMessage)

\* a RETRY_EXHAUSTED result reached a callback, the broker having conformed
C7_Witness ==
    /\ brokerConforms
    /\ \E sid \in Sids :
          /\ subs[sid].cbArg # NoValue
          /\ subs[sid].cbArg[1].status = "RETRY_EXHAUSTED"
          /\ Len(subs[sid].tries) = 3

(* C8: the result of executeWithRetry is RETRY_EXHAUSTED iff maxRetries+1
   attempts were made and each returned CONNECTION_ERROR or REJECTED; it then
   has retryCount = maxRetries and the attempt-count summary followed by the
   error message of the last attempt. *)
C8_ExhaustedIffAllAttemptsRetryable ==
    \A sid \in Sids :
        Executed(sid) =>
            LET r == subs[sid].recorded[1]
                t == subs[sid].tries
            IN  /\ r.status = "RETRY_EXHAUSTED" <=>
                      /\ Len(t) = config.maxRetries + 1
                      /\ \A i \in DOMAIN t : t[i] \in Retryable
                /\ r.status = "RETRY_EXHAUSTED" =>
                      /\ r.retryCount = config.maxRetries
                      /\ r.errorMessage =
                            AttemptSummary(config.maxRetries + 1)
                                \o subs[sid].lastBroker[1].errorMessage

\* exhaustion after three attempts that ended CONNECTION_ERROR, REJECTED, REJECTED
C8_Witness ==
    \E sid \in Sids :
        /\ Executed(sid)
        /\ subs[sid].recorded[1].status = "RETRY_EXHAUSTED"
        /\ subs[sid].tries = <<"CONNECTION_ERROR", "REJECTED", "REJECTED">>

(* C9: a validated request gets between 1 and maxRetries+1 executeTrade calls;
   every attempt but the last returned CONNECTION_ERROR or REJECTED; and a last
   attempt that returned SUCCESS, INVALID_PARAMS or MARGIN_ERROR is returned
   with that status. *)
C9_RetryOnlyAfterRetryable ==
    \A sid \in Sids :
        LET t == subs[sid].tries
        IN  /\ Len(t) <= config.maxRetries + 1
            /\ \A i \in DOMAIN t : i < Len(t) => t[i] \in Retryable
            /\ Executed(sid) =>
                  /\ Len(t) >= 1
                  /\ Last(t) \notin Retryable => subs[sid].recorded[1].status = Last(t)
                  /\ Last(t) \in Retryable => Len(t) = config.maxRetries + 1

\* a MARGIN_ERROR on the second of three allowed attempts ended the loop
C9_Witness ==
    \E sid \in Sids :
        /\ Executed(sid)
        /\ config.maxRetries = 2
        /\ subs[sid].tries = <<"REJECTED", "MARGIN_ERROR">>
        /\ subs[sid].recorded[1].status = "MARGIN_ERROR"

(* C10: the retryCount of the result of executeWithRetry is the number of
   executeTrade calls made for the request minus one, whatever retryCount the
   broker wrote into its result. *)
C10_RetryCountIsLastAttempt ==
    \A sid \in Sids :
        Executed(sid) => subs[sid].recorded[1].retryCount = Len(subs[sid].tries) - 1

\* attempts 0 and 1 failed with CONNECTION_ERROR, attempt 2 succeeded, and the
\* broker had written another retryCount into that result
C10_Witness ==
    \E sid \in Sids :
        /\ Executed(sid)
        /\ subs[sid].tries = <<"CONNECTION_ERROR", "CONNECTION_ERROR", "SUCCESS">>
        /\ subs[sid].lastBroker[1].retryCount = 9
        /\ subs[sid].recorded[1].retryCount = 2

-----------------------------------------------------------------------------
(* Properties of the ResultTracker *)

\* the submissions whose result was recorded for client c, in recording order
RecordedFor(c) ==
    LET S == {sid \in Sids : subs[sid].recorded # NoValue
                                /\ subs[sid].recorded[1].clientId = c}
        order == CHOOSE q \in [1 .. Cardinality(S) -> S] :
                    \A i, j \in DOMAIN q : i < j => subs[q[i]].recNo < subs[q[j]].recNo
    IN  [i \in 1 .. Cardinality(S) |-> subs[order[i]].recorded[1]]

(* C11: every requestId listed in clientRequests_[c] is a key of results_, and
   the result stored under it has clientId c. *)
C11_IndicesConsistent ==
    \A c \in DOMAIN clientRequests_ :
        \A i \in DOMAIN clientRequests_[c] :
            LET id == clientRequests_[c][i]
            IN  id \in DOMAIN results_ /\ results_[id].clientId = c

(* C12: for every result R that was recorded, getByRequestId(R.requestId)
   returns R, and getByClientId(R.clientId) returns the results recorded for
   that client in the order they were recorded, R among them. *)
C12_TrackerRoundTrip ==
    \A sid \in Sids :
        subs[sid].recorded # NoValue =>
            LET R == subs[sid].recorded[1]
                got == getByClientId(results_, clientRequests_, R.clientId)
            IN  /\ getByRequestId(results_, R.requestId) = <<R>>
                /\ got = RecordedFor(R.clientId)
                /\ \E i \in DOMAIN got : got[i] = R

(* C13: the bucket counts of getStats() (successful + rejected + errors +
   duplicates) add up to the number of record() calls made so far. *)
C13_StatsSumIsRecordCount ==
    LET st == getStats(results_)
    IN  st.successful + st.rejected + st.errors + st.duplicates = NumRecorded

(* C14: from the moment the result of a request the broker executed
   successfully is recorded, getByRequestId(requestId) returns a SUCCESS result
   with the ticket the broker issued for it; and no two request ids are mapped
   to the same ticket. *)
C14_RequestTicketBijection ==
    /\ \A sid \in Sids :
          (Executed(sid) /\ Last(subs[sid].tries) = "SUCCESS") =>
              LET got == getByRequestId(results_, subs[sid].req.requestId)
              IN  /\ got # NoValue
                  /\ got[1].status = "SUCCESS"
                  /\ got[1].mtTicketId = subs[sid].lastBroker[1].mtTicketId
    /\ \A a, b \in DOMAIN results_ :
          (a # b /\ results_[a].mtTicketId # NoTicket)
              => results_[a].mtTicketId # results_[b].mtTicketId

-----------------------------------------------------------------------------
(* Exceptions inside a worker *)

\* a worker holds the submission: it has popped it and not yet finished with it
Held(sid) == \E w \in WorkerIds : wk[w].item # NoValue /\ wk[w].item[1].sid = sid

\* the statuses of the attempts as the retry policy is to see them: an
\* executeTrade that threw counts as CONNECTION_ERROR
SeenByPolicy(t) == [i \in DOMAIN t |-> IF t[i] = "THROW" THEN "CONNECTION_ERROR" ELSE t[i]]

(* C15: an exception raised while a worker processes a request does not end the
   worker or the pool: no worker is terminated, and a request whose processing
   raised an exception has, once the worker is done with it, a recorded result
   with status CONNECTION_ERROR or INVALID_PARAMS. *)
C15_ExceptionKeepsPool ==
    /\ \A w \in WorkerIds : wk[w].pc # "terminated"
    /\ \A sid \in Sids :
          (subs[sid].threw = "broker" /\ ~Held(sid)) =>
              /\ subs[sid].recorded # NoValue
              /\ subs[sid].recorded[1].status \in {"CONNECTION_ERROR", "INVALID_PARAMS"}

(* C16: an executeTrade that throws is treated as an attempt that returned
   CONNECTION_ERROR: the exception does not leave the worker, the request is
   retried within the limit of maxRetries+1 attempts, and it ends with exactly
   one recorded result, RETRY_EXHAUSTED iff all maxRetries+1 attempts failed
   retryably. *)
C16_BrokerThrowIsRetried ==
    \A sid \in Sids :
        subs[sid].threw = "broker" =>
            LET t == SeenByPolicy(subs[sid].tries)
            IN  /\ \A w \in WorkerIds :
                      (wk[w].item # NoValue /\ wk[w].item[1].sid = sid)
                          => wk[w].pc \in {"execute", "record", "callback"}
                /\ Len(t) <= config.maxRetries + 1
                /\ ~Held(sid) =>
                      /\ subs[sid].recs = 1
                      /\ subs[sid].recorded[1].status = "RETRY_EXHAUSTED" <=>
                            /\ Len(t) = config.maxRetries + 1
                            /\ \A i \in DOMAIN t : t[i] \in Retryable

-----------------------------------------------------------------------------
(* Properties of the ThreadSafeQueue *)

\* worker w leaves the evaluation of pop()'s predicate in this step
PopStep(w) == wk[w].pc = "pop" /\ wk'[w].pc # "pop"

(* C17: push adds the item whenever the queue is not shut down, and once the
   shutdown latch is set push adds nothing: the queue then holds only items
   that were in it when the latch was set. *)
C17_PushAfterShutdownNoOp ==
    /\ \A sid \in Sids :
          subs[sid].state \in {"pushed", "dropped"} =>
              (subs[sid].state = "dropped" <=> subs[sid].shutAtPush)
    /\ shutdown_ =>
          \A i \in DOMAIN queue_ : \E j \in DOMAIN latch : latch[j] = queue_[i].sid

(* C18: a pop() that evaluates its predicate takes the head item whenever the
   queue is non-empty (also after shutdown), returns nullopt only when the
   queue is empty and shut down, and blocks otherwise; a blocked thread does
   nothing but evaluate the predicate again. *)
C18_PopContract ==
    [][\A w \in WorkerIds :
          /\ PopStep(w) =>
                IF queue_ # <<>>
                THEN /\ wk'[w].item = <<Head(queue_)>>
                     /\ queue_' = Tail(queue_)
                ELSE /\ queue_' = queue_
                     /\ wk'[w].item = NoValue
                     /\ wk'[w].pc = IF shutdown_ THEN "exited" ELSE "waiting"
          /\ wk[w].pc = "waiting" => wk'[w].pc \in {"waiting", "pop"}]_vars

\* after shutdown one worker has left its loop on the empty queue and another
\* holds an item it popped after the latch was set
C18_Witness ==
    /\ shutdown_
    /\ \E w, v \in WorkerIds :
          /\ wk[w].pc = "exited"
          /\ wk[v].item # NoValue
          /\ \E j \in DOMAIN latch : latch[j] = wk[v].item[1].sid

(* C20: if one producer submits A and then B and both are pushed, A is popped
   before B; more generally the items leave the queue in the order in which
   their push calls were serialized, whichever workers pop them. *)
C20_PerProducerFifo ==
    \A a, b \in Sids :
        (Pushed(a) /\ Pushed(b) /\ subs[b].pops >= 1) =>
            /\ (a < b /\ subs[a].producer = subs[b].producer) => subs[a].pops >= 1
            /\ subs[a].pushNo < subs[b].pushNo => subs[a].pops >= 1

\* a producer submitted A and then B, and two workers hold them: B was popped
\* while A was still being processed
C20_Witness ==
    \E a, b \in Sids : \E w, v \in WorkerIds :
        /\ a < b /\ subs[a].producer = subs[b].producer
        /\ w # v
        /\ wk[w].item # NoValue /\ wk[w].item[1].sid = a
        /\ wk[v].item # NoValue /\ wk[v].item[1].sid = b

\* the controlling thread executes the locked block of queue_.shutdown()
ShutdownStep == ctl = "stopping" /\ ctl' = "notifying"

(* C19: the shutdown latch is one-way and a second shutdown() changes neither
   the latch nor the queue; once the latch is set a pop() that finds the queue
   empty returns nullopt, and every worker, the ones blocked in pop() included,
   eventually leaves its loop. *)
C19_ShutdownWakesAll ==
    /\ [][shutdown_ => shutdown_']_vars
    /\ [][(shutdown_ /\ ShutdownStep) => UNCHANGED <<shutdown_, queue_>>]_vars
    /\ [][\A w \in WorkerIds :
            (shutdown_ /\ queue_ = <<>> /\ PopStep(w)) => wk'[w].pc = "exited"]_vars
    /\ (shutdown_ ~> (\A w \in WorkerIds : wk[w].pc = "exited"))

\* stop() has returned for the second time: shutdown() was called twice and the
\* workers of both runs have left their loops
C19_Witness ==
    /\ ctl = "stopped"
    /\ Len(script) <= 2 * MaxStarts - 4
    /\ shutdown_
    /\ \A w \in WorkerIds : wk[w].pc = "exited"

-----------------------------------------------------------------------------
(* Properties of the worker loop and of the lifecycle *)

(* C21: a worker invokes a request's callback only after it has recorded the
   result: whenever a callback is about to run or has run, the tracker holds a
   result under that requestId and the result passed to the callback is the one
   that was recorded. *)
C21_RecordBeforeCallback ==
    /\ \A w \in WorkerIds :
          wk[w].pc = "callback" =>
              /\ subs[wk[w].item[1].sid].recs = 1
              /\ wk[w].item[1].req.requestId \in DOMAIN results_
    /\ \A sid \in Sids :
          subs[sid].cbs >= 1 =>
              /\ subs[sid].recs = 1
              /\ subs[sid].req.requestId \in DOMAIN results_
              /\ subs[sid].cbArg = subs[sid].recorded

\* a callback has run for a DUPLICATE result while another worker is about to
\* run the callback of the original
C21_Witness ==
    \E a, b \in Sids : \E w \in WorkerIds :
        /\ a # b
        /\ subs[a].cbs = 1 /\ subs[a].recorded[1].status = "DUPLICATE"
        /\ wk[w].pc = "callback" /\ wk[w].item[1].sid = b

(* C22: a start() call on a running processor changes nothing (no worker is
   created or reset), and a stop() call on a processor that is not running,
   never started or already stopped, changes neither the running flag, the
   shutdown latch, the queue nor the workers. *)
C22_RedundantCallsAreNoOps ==
    [][(script' # script) =>
          /\ (Head(script) = "start" /\ running_) =>
                UNCHANGED <<running_, wk, ctl, queue_, shutdown_>>
          /\ (Head(script) = "stop" /\ ~running_) =>
                UNCHANGED <<running_, wk, ctl, queue_, shutdown_>>]_vars

\* three calls were made and the processor went through one start and one stop:
\* one of the calls was a start() while running or a stop() while not running
C22_Witness ==
    /\ ctl = "stopped"
    /\ Len(script) = MaxCalls - 3
    /\ \E sid \in Sids : subs[sid].recs = 1

(* C23: stop() does not abort work in flight: when stop() has returned, every
   request a worker had popped has been validated, executed with its full retry
   budget (attempts and backoff sleeps go on after running_ became false),
   recorded and called back; no worker leaves its loop holding a request. *)
C23_StopWaitsForInFlight ==
    /\ \A w \in WorkerIds : wk[w].pc = "exited" => wk[w].item = NoValue
    /\ ctl = "stopped" =>
          \A sid \in Sids :
              subs[sid].pops >= 1 =>
                  /\ ProcessedOnce(sid)
                  /\ subs[sid].vstat # "none"
                  /\ subs[sid].vstat = "pass" =>
                        LET t == subs[sid].tries
                        IN  /\ Len(t) >= 1
                            /\ Len(subs[sid].slept) = Len(t) - 1
                            /\ Last(t) \in Retryable =>
                                  /\ Len(t) = config.maxRetries + 1
                                  /\ subs[sid].recorded[1].status = "RETRY_EXHAUSTED"

\* stop() has returned, and a request whose first attempt was made while the
\* processor was running got its later attempts after running_ had become false
C23_Witness ==
    /\ ctl = "stopped"
    /\ \E sid \in Sids :
          /\ Len(subs[sid].tries) >= 2
          /\ subs[sid].lateTries >= 1
          /\ subs[sid].lateTries < Len(subs[sid].tries)
          /\ subs[sid].cbs = 1

(* C24: provided every broker call and every callback returns, a stop() call on
   a running processor returns: once stop() has cleared the running flag, the
   state in which it has returned and every worker has left its loop is
   eventually reached, whatever the queue held and however many workers were
   blocked in pop(). *)
C24_StopTerminates ==
    (ctl = "stopping") ~> (ctl = "stopped" /\ \A w \in WorkerIds : wk[w].pc = "exited")

\* stop() has returned after a call that found a request in the queue, which
\* was processed before the workers left
C24_Witness ==
    /\ ctl = "stopped"
    /\ Len(latch) = 1
    /\ subs[latch[1]].recs = 1
    /\ \A w \in WorkerIds : wk[w].pc = "exited"

\* The checks of the validation order that a validated request fails, numbered
\* 1 dedup, 2 clientId and symbol non-empty, 3 volume > 0, 4 symbol known,
\* 5 trading allowed, 6 volume within the symbol's range, 7 stopLoss/takeProfit
FailedChecks(sid) ==
    LET r == subs[sid].req
        known == r.symbol \in DOMAIN symbols_
    IN  {k \in 1 .. 7 :
            \/ k = 1 /\ subs[sid].wasSeen
            \/ k = 2 /\ (r.clientId = "" \/ r.symbol = "")
            \/ k = 3 /\ r.volume <= 0
            \/ k = 4 /\ ~known
            \/ k = 5 /\ known /\ ~symbols_[r.symbol].tradeAllowed
            \/ k = 6 /\ known /\ (\/ r.volume < symbols_[r.symbol].minVolume
                                   \/ r.volume > symbols_[r.symbol].maxVolume)
            \/ k = 7 /\ (\/ r.stopLoss # NoValue /\ r.stopLoss[1] <= 0
                         \/ r.takeProfit # NoValue /\ r.takeProfit[1] <= 0)}

FirstFailed(sid) == CHOOSE k \in FailedChecks(sid) : \A j \in FailedChecks(sid) : k <= j

CheckStatus ==
    <<"DUPLICATE", "INVALID_PARAMS", "INVALID_PARAMS", "INVALID_PARAMS", "REJECTED",
      "INVALID_PARAMS", "INVALID_PARAMS">>

\* How the message of each check begins
CheckMessage ==
    <<{"Duplicate request ID: "}, {"Empty client ID", "Empty symbol"},
      {"Invalid volume: "}, {"Unknown symbol: "}, {"Trading not allowed for: "},
      {"Volume "}, {"Invalid stop loss: ", "Invalid take profit: "}>>

(* C25: validate() reports the first check, in the order dedup, clientId and
   symbol non-empty, volume > 0, symbol known, trading allowed, volume range,
   stopLoss/takeProfit, that the request fails: the returned status is the one
   of that check and the message is the one of that check; a request failing
   none passes. *)
C25_FirstFailingCheckWins ==
    \A sid \in Sids :
        subs[sid].vstat # "none" =>
            IF FailedChecks(sid) = {} THEN subs[sid].vstat = "pass"
            ELSE /\ subs[sid].vstat = CheckStatus[FirstFailed(sid)]
                 /\ subs[sid].recorded # NoValue =>
                       /\ subs[sid].recorded[1].status = CheckStatus[FirstFailed(sid)]
                       /\ subs[sid].recorded[1].errorMessage[1]
                              \in CheckMessage[FirstFailed(sid)]

\* a request on a closed symbol with a volume out of range was recorded as
\* REJECTED, and a duplicate that fails a later check as well as DUPLICATE
C25_Witness ==
    \E a, b \in Sids :
        /\ {5, 6} \subseteq FailedChecks(a)
        /\ subs[a].recorded # NoValue /\ subs[a].recorded[1].status = "REJECTED"
        /\ 1 \in FailedChecks(b) /\ Cardinality(FailedChecks(b)) >= 2
        /\ subs[b].recorded # NoValue /\ subs[b].recorded[1].status = "DUPLICATE"

\* the requestIds of the requests that have entered validate()
EnteredIds == {subs[sid].req.requestId : sid \in {x \in Sids : subs[x].vstat # "none"}}

\* every submission carried an id of its own, each one was processed, and stop()
\* has returned
BurstDone ==
    /\ Quiescent
    /\ subs # <<>>
    /\ \A a, b \in Sids : a # b => subs[a].req.requestId # subs[b].req.requestId
    /\ \A sid \in Sids : Pushed(sid) /\ subs[sid].recs = 1

(* C26: no step removes a requestId from the dedup set; after every step the
   set is the set of requestIds of the requests that have entered validation;
   and once a burst of requests with ids of their own has been processed and
   stop() has returned, the set has one element for each request and one result
   for each request is recorded and stored. *)
C26_DedupSetGrows ==
    [][ /\ seenRequests_ \subseteq seenRequests_'
        /\ seenRequests_' = EnteredIds'
        /\ BurstDone' =>
              /\ Cardinality(seenRequests_') = Len(subs')
              /\ NumRecorded' = Len(subs')
              /\ Cardinality(DOMAIN results_') = Len(subs') ]_vars

\* a burst in which every request of the pool was submitted once is done
C26_Witness ==
    /\ BurstDone
    /\ Len(subs) = Cardinality(BurstPool)
    /\ Cardinality(seenRequests_) = Cardinality(BurstPool)

\* The statuses of each counter of Stats
BucketStatuses ==
    [successful |-> {"SUCCESS"},
     duplicates |-> {"DUPLICATE"},
     rejected |-> {"REJECTED", "MARGIN_ERROR", "RETRY_EXHAUSTED"},
     errors |-> {"CONNECTION_ERROR", "INVALID_PARAMS"}]

BucketSum(stats) == stats.successful + stats.duplicates + stats.rejected + stats.errors

\* the positions of a client's list whose id has a stored result
ListedStored(c) ==
    IF c \in DOMAIN clientRequests_
    THEN {i \in DOMAIN clientRequests_[c] : clientRequests_[c][i] \in DOMAIN results_}
    ELSE {}

(* C27: each status belongs to exactly one counter; getStats() counts every
   stored result once, in the counter of its status, and getClientStats(c) does
   so for every listed id of the client that has a stored result; in both,
   totalRequests is the sum of the four counters. *)
C27_StatsBuckets ==
    /\ \A st \in TradeStatus :
          Cardinality({b \in DOMAIN BucketStatuses : st \in BucketStatuses[b]}) = 1
    /\ LET stats == getStats(results_)
       IN  /\ stats.totalRequests = Cardinality(DOMAIN results_)
           /\ stats.totalRequests = BucketSum(stats)
           /\ \A b \in DOMAIN BucketStatuses :
                 stats[b] = Cardinality({id \in DOMAIN results_ :
                                           results_[id].status \in BucketStatuses[b]})
    /\ \A c \in DOMAIN clientRequests_ \cup {"c3"} :
          LET stats == getClientStats(results_, clientRequests_, c)
          IN  /\ stats.totalRequests = Cardinality(ListedStored(c))
              /\ stats.totalRequests = BucketSum(stats)
              /\ \A b \in DOMAIN BucketStatuses :
                    stats[b] = Cardinality({i \in ListedStored(c) :
                        results_[clientRequests_[c][i]].status \in BucketStatuses[b]})

\* two results of one client are stored, one of them a MARGIN_ERROR, and both
\* count as rejected
C27_Witness ==
    /\ Cardinality(DOMAIN results_) = 2
    /\ \E id \in DOMAIN results_ : results_[id].status = "MARGIN_ERROR"
    /\ getStats(results_).rejected = 2
    /\ getClientStats(results_, clientRequests_, "c1").rejected = 2

\* the submissions whose result was recorded under the request id
RecordedUnder(id) == {sid \in Sids : subs[sid].recNo > 0 /\ subs[sid].req.requestId = id}

\* the one of them that was recorded last
LastRecorded(id) ==
    CHOOSE sid \in RecordedUnder(id) : \A x \in RecordedUnder(id) : subs[x].recNo <= subs[sid].recNo

\* the request ids listed in the per-client index
ListedIds == UNION {{clientRequests_[c][i] : i \in DOMAIN clientRequests_[c]} :
                       c \in DOMAIN clientRequests_}

(* C28: in every state a query can observe, a request id is in the result index
   iff it is listed in the per-client index, which is so iff a result was
   recorded under it; and getByRequestId returns the result that was recorded
   last under the id, whether that is the original or a DUPLICATE. *)
C28_LastRecordedWins ==
    /\ DOMAIN results_ = ListedIds
    /\ DOMAIN results_ = {subs[sid].req.requestId : sid \in {x \in Sids : subs[x].recNo > 0}}
    /\ \A id \in DOMAIN results_ :
          getByRequestId(results_, id) = subs[LastRecorded(id)].recorded

\* a DUPLICATE was recorded first and the result of the original after it: the
\* tracker returns the original
C28_Witness ==
    \E a, b \in Sids :
        /\ subs[a].req.requestId = subs[b].req.requestId
        /\ 0 < subs[a].recNo /\ subs[a].recNo < subs[b].recNo
        /\ subs[a].recorded[1].status = "DUPLICATE"
        /\ subs[b].recorded[1].status = "SUCCESS"
        /\ getByRequestId(results_, subs[a].req.requestId) = subs[b].recorded

RECURSIVE Doubled(_, _)
Doubled(x, n) == IF n = 0 THEN x ELSE 2 * Doubled(x, n - 1)

(* C29: nothing is slept before attempt 0, one delay is slept before each later
   attempt, and the delay between attempt n and attempt n+1 is retryBaseMs
   doubled n times: base, 2*base, 4*base, ... *)
C29_BackoffSchedule ==
    \A sid \in Sids :
        /\ Len(subs[sid].tries) <= 1 => subs[sid].slept = <<>>
        /\ Len(subs[sid].tries) >= 1 => Len(subs[sid].slept) = Len(subs[sid].tries) - 1
        /\ \A n \in 0 .. (Len(subs[sid].slept) - 1) :
              subs[sid].slept[n + 1] = Doubled(config.retryBaseMs, n)

\* a request whose attempts all failed went through the whole schedule
C29_Witness ==
    \E sid \in Sids :
        /\ config.maxRetries >= 2
        /\ Len(subs[sid].tries) = config.maxRetries + 1
        /\ Len(subs[sid].slept) = config.maxRetries
        /\ subs[sid].slept[1] = RetryBaseMs
        /\ subs[sid].slept[2] = 2 * RetryBaseMs

(* C30: no recorded and no stored result has the status CONNECTION_ERROR; a
   recorded REJECTED result is the Validator's trade-permission error of a
   request that never reached the broker, with retryCount 0; a request whose
   last broker outcome was retryable is recorded as RETRY_EXHAUSTED; so the
   errors counter counts INVALID_PARAMS results only. *)
C30_NoTransientStatusRecorded ==
    /\ \A sid \in Sids :
          subs[sid].recorded # NoValue =>
              LET r == subs[sid].recorded[1]
              IN  /\ r.status # "CONNECTION_ERROR"
                  /\ r.status = "REJECTED" =>
                        /\ subs[sid].vstat = "REJECTED"
                        /\ subs[sid].tries = <<>>
                        /\ r.retryCount = 0
                        /\ r.errorMessage[1] \in CheckMessage[5]
                        /\ ~symbols_[subs[sid].req.symbol].tradeAllowed
                  /\ (subs[sid].tries # <<>> /\ Last(subs[sid].tries) \in Retryable) =>
                        r.status = "RETRY_EXHAUSTED"
    /\ \A id \in DOMAIN results_ : results_[id].status # "CONNECTION_ERROR"
    /\ getStats(results_).errors =
          Cardinality({id \in DOMAIN results_ : results_[id].status = "INVALID_PARAMS"})

\* one request was refused by the trade-permission check and recorded as
\* REJECTED, another was retried after a connection error, rejected by the
\* broker on its last attempt and recorded as RETRY_EXHAUSTED
C30_Witness ==
    \E a, b \in Sids :
        /\ subs[a].recorded # NoValue /\ subs[a].recorded[1].status = "REJECTED"
        /\ subs[b].recorded # NoValue /\ subs[b].recorded[1].status = "RETRY_EXHAUSTED"
        /\ Len(subs[b].tries) >= 2
        /\ subs[b].tries[1] = "CONNECTION_ERROR"
        /\ Last(subs[b].tries) = "REJECTED"

\* the submissions with the request id that have been through validate()
ValidatedWith(id) == {sid \in Sids : subs[sid].vstat # "none" /\ subs[sid].req.requestId = id}

(* C31: the first request validated under a request id consumes the id whatever
   becomes of it: the id is in the dedup set from then on, and every other
   request validated under that id, valid or not, found the id in the set, got
   DUPLICATE, made no symbol lookup and no broker call, and is recorded as
   DUPLICATE. *)
C31_FailedRequestConsumesId ==
    \A sid \in Sids :
        subs[sid].vstat # "none" =>
            LET id == subs[sid].req.requestId
            IN  /\ id \in seenRequests_
                /\ Cardinality({x \in ValidatedWith(id) : ~subs[x].wasSeen}) = 1
                /\ subs[sid].wasSeen =>
                      /\ subs[sid].vstat = "DUPLICATE"
                      /\ subs[sid].symbolGets = 0
                      /\ subs[sid].tries = <<>>
                      /\ subs[sid].recorded # NoValue =>
                            subs[sid].recorded[1].status = "DUPLICATE"

\* a request failed a parameter check, and a valid request that came later with
\* the same id was recorded as DUPLICATE
C31_Witness ==
    \E a, b \in Sids :
        /\ subs[a].req.requestId = subs[b].req.requestId
        /\ subs[a].vstat = "INVALID_PARAMS"
        /\ subs[b].wasSeen
        /\ FailedChecks(b) = {1}
        /\ subs[b].recorded # NoValue /\ subs[b].recorded[1].status = "DUPLICATE"

\* the processor runs again after a stop(): the latch is set from the earlier
\* shutdown() and start() has set the running flag
Restarted == running_ /\ shutdown_

\* every worker thread has left workerLoop
AllExited == \A w \in WorkerIds : wk[w].pc = "exited"

(* C32: no step clears the queue's shutdown latch, start() included.  In a
   processor started again after stop(), no worker is ever blocked in pop(); a
   worker that calls pop() on the empty queue leaves its loop, and a worker
   leaves its loop only on an empty queue; and once all of them have left,
   whatever submit() pushes stays in the queue, unpopped, with no result
   recorded and no callback made. *)
C32_NotRestartable ==
    [][ /\ shutdown_ => shutdown_'
        /\ Restarted' => Waiting' = {}
        /\ \A w \in WorkerIds :
              (Restarted /\ wk[w].pc = "pop" /\ wk'[w] # wk[w]) =>
                  (wk'[w].pc = "exited" <=> queue_ = <<>>)
        /\ (Restarted /\ AllExited /\ ctl = "started") =>
              /\ SubSeq(queue_', 1, Len(queue_)) = queue_
              /\ \A i \in DOMAIN queue_' :
                    /\ subs'[queue_'[i].sid].pops = 0
                    /\ subs'[queue_'[i].sid].recs = 0
                    /\ subs'[queue_'[i].sid].cbs = 0 ]_vars

\* after start, stop, start the workers have exited, and a request that
\* submit() accepted since then sits in the queue that nobody pops
C32_Witness ==
    /\ Restarted /\ AllExited /\ ctl = "started"
    /\ \A p \in ProducerIds : prod[p].pc = "idle"
    /\ \E i \in DOMAIN queue_ :
          /\ subs[queue_[i].sid].state = "pushed"
          /\ subs[queue_[i].sid].shutAtPush
          /\ subs[queue_[i].sid].recs = 0
          /\ subs[queue_[i].sid].cbs = 0

\* the submissions whose result was recorded, and those recorded for a client
RecordedSids == {sid \in Sids : subs[sid].recNo > 0}
RecordedForClient(c) == {sid \in RecordedSids : subs[sid].recorded[1].clientId = c}

RECURSIVE SumClientTotals(_)
SumClientTotals(cs) ==
    IF cs = {} THEN 0
    ELSE LET c == CHOOSE x \in cs : TRUE
         IN  getClientStats(results_, clientRequests_, c).totalRequests
                 + SumClientTotals(cs \ {c})

\* the clients of the submissions made so far
Clients == {subs[sid].req.clientId : sid \in Sids}

(* C33: getStats().totalRequests is the number of distinct request ids under
   which a result was recorded; getByClientId(c) has one element for each
   record() call made for c, each being the result now stored under the listed
   id; the totals of getClientStats over all clients add up to the number of
   record() calls; and the two totals are equal iff no id was recorded twice. *)
C33_TotalsCountDifferentThings ==
    /\ getStats(results_).totalRequests =
          Cardinality({subs[sid].req.requestId : sid \in RecordedSids})
    /\ \A c \in Clients :
          LET rs == getByClientId(results_, clientRequests_, c)
          IN  /\ Len(rs) = Cardinality(RecordedForClient(c))
              /\ \A i \in DOMAIN rs : rs[i] = results_[clientRequests_[c][i]]
    /\ SumClientTotals(Clients) = Cardinality(RecordedSids)
    /\ (getStats(results_).totalRequests = SumClientTotals(Clients))
          <=> (\A a, b \in RecordedSids :
                  a # b => subs[a].req.requestId # subs[b].req.requestId)

\* one request id was recorded for two clients: one stored result, two entries
\* in the per-client index
C33_Witness ==
    /\ Cardinality(RecordedSids) = 2
    /\ Cardinality(Clients) = 2
    /\ getStats(results_).totalRequests = 1
    /\ SumClientTotals(Clients) = 2

\* the mutexes a thread owns
HeldBy(t) == {m \in Mutexes : mutex_[m] = t}

\* the position at which a worker owns a mutex, and the mutex it owns there
WorkerHolds(pc) ==
    CASE pc = "pop_locked" -> {"queue"}
      [] pc = "validate_locked" -> {"dedup"}
      [] pc = "record_locked" -> {"tracker"}
      [] pc = "callback_locked" -> {"tracker"}
      [] OTHER -> {}

\* no thread has anything left to do: stop() has returned and every submit()
\* call has been made and has returned
AllDone == ctl = "stopped" /\ budget = 0 /\ \A p \in ProducerIds : prod[p].pc = "idle"

(* C34: a thread owns at most one of the three mutexes, and owns one only inside
   the queue operation, the dedup block or the tracker call that took it: a
   worker owns none while it is in executeTrade or in the backoff sleep, nor
   when it enters the callback, so a tracker query made by the callback gets
   the mutex; the owner of a mutex is always able to take its next step, and
   the only states without a next step are those in which stop() has returned
   and no thread has anything left to do. *)
C34_LockDiscipline ==
    /\ \A w \in WorkerIds : HeldBy(WorkerThread(w)) = WorkerHolds(wk[w].pc)
    /\ \A p \in ProducerIds :
          HeldBy(ProducerThread(p)) = IF prod[p].pc = "push_locked" THEN {"queue"} ELSE {}
    /\ HeldBy(ControlThread) = IF ctl = "stopping_locked" THEN {"queue"} ELSE {}
    /\ \A m \in Mutexes :
          mutex_[m] \in {NoHolder, ControlThread}
              \cup {WorkerThread(w) : w \in WorkerIds}
              \cup {ProducerThread(p) : p \in ProducerIds}
    /\ \A w \in WorkerIds :
          wk[w].pc \in {"execute", "callback", "waiting"} => HeldBy(WorkerThread(w)) = {}
    /\ ~(ENABLED Next) => AllDone

\* a callback is about to query the tracker while another worker is inside
\* record(), and the stopping thread is inside shutdown()
C34_Witness ==
    /\ lockSteps
    /\ \E a, b \in WorkerIds :
          /\ wk[a].pc = "callback"
          /\ wk[b].pc = "record_locked"
          /\ mutex_["tracker"] = WorkerThread(b)
    /\ mutex_["queue"] = ControlThread

\* a worker is between pop() and the end of its callback
Busy(w) == wk[w].pc \notin {"unborn", "pop", "waiting", "exited", "terminated"}

\* the queue holds an item, a worker is blocked in cv_.wait and no worker is at work
Stalled == queue_ # <<>> /\ Waiting # {} /\ \A w \in WorkerIds : ~Busy(w)

(* C35: when every thread that can take a step is scheduled and broker calls
   and callbacks return, the queue never stays non-empty for good with a worker
   blocked in pop() and no worker at work, and every item that was pushed is
   eventually popped. *)
C35_NoLostWakeup ==
    /\ ~<>[]Stalled
    /\ \A sid \in 1 .. MaxSubmits :
          (sid \in Sids /\ Pushed(sid)) ~> (sid \in Sids /\ subs[sid].pops >= 1)

(* C36: whatever the interleaving of the start() and stop() calls of two
   threads, workers_ never holds more than numWorkers threads, and at most one
   thread runs queue_.shutdown() for one run of the processor. *)
C36_ConcurrentCallsIdempotent ==
    /\ workers_ <= config.numWorkers
    /\ Cardinality(stoppers) <= 1

====
